---- MODULE Spec2Model ----
(***************************************************************************)
(* Host-side control layer of the p_tr progressive renderer:               *)
(*   src/src/main.rs        Camera, System::on_window_event, Application   *)
(*   src/src/render/mod.rs  Render (resize, set_camera, render)            *)
(*   src/src/math/mod.rs    Vec3f, Vec2f, Ext2                             *)
(* The timer and input modules (main.rs:5-6) are not part of the sources   *)
(* at hand; they are modelled from their documented contracts.             *)
(*                                                                         *)
(* f32/f64 values are fixed-point integers with Scale units per 1.0.       *)
(* Angles are therefore in milliradians and times in milliseconds.         *)
(***************************************************************************)
EXTENDS Integers, Sequences, FiniteSets, TLC

VARIABLES
    system,     \* Application.system: "None" or "Some"           (main.rs:200)
    exiting,    \* event_loop.exit() has been called              (main.rs:101)
    window,     \* the winit window: inner size, fullscreen, pending redraw
    render,     \* System.render: render::Render                  (render/mod.rs:49)
    timer,      \* System.timer                                   (main.rs:42)
    input,      \* System.input                                   (main.rs:43)
    camera,     \* System.camera                                  (main.rs:44)
    trace,      \* the steps the most recent handler call took, in program order
    ticks,      \* number of RedrawRequested events handled so far
    args        \* the arguments of a function applied on its own (<<>> in the event loop)

vars == <<system, exiting, window, render, timer, input, camera, trace, ticks, args>>

(***************************************************************************)
(* Bounds of the model                                                     *)
(***************************************************************************)
MaxTicks == 3       \* RedrawRequested events handled in one behaviour
MaxFrameIndex == 40 \* largest frame index a behaviour of SpecBuffers starts from

(***************************************************************************)
(* f32 arithmetic as fixed point                                           *)
(***************************************************************************)
Scale == 1000

\* n / d rounded to nearest (d > 0). d = 0 is an evaluation error: the f32
\* division would give inf or NaN there.
RoundDiv(n, d) == (n + d \div 2) \div d

FMul(a, b) == RoundDiv(a * b, Scale)
FDiv(a, b) == RoundDiv(a * Scale, b)

RECURSIVE SqrtSearch(_, _, _)
SqrtSearch(n, lo, hi) ==
    IF lo >= hi THEN lo
    ELSE LET mid == (lo + hi + 1) \div 2
         IN  IF mid * mid <= n THEN SqrtSearch(n, mid, hi)
                               ELSE SqrtSearch(n, lo, mid - 1)

\* f32::sqrt of a value held at double scale (a sum of products of two
\* fixed-point numbers); the result is at single scale, rounded to nearest.
Sqrt(n) ==
    LET r == SqrtSearch(n, 0, 46340)
    IN  IF n - r * r > r THEN r + 1 ELSE r

\* std::f32::consts::PI
Pi == 3142
HalfPi == Pi \div 2
TwoPi == 2 * Pi

\* cos on [0, pi/2]: Taylor polynomial up to x^8, evaluated with one more
\* decimal digit than Scale and rounded
CosQ(x) ==
    LET x2 == RoundDiv(x * x, 100)
        x4 == RoundDiv(x2 * x2, 10000)
        x6 == RoundDiv(x4 * x2, 10000)
        x8 == RoundDiv(RoundDiv(x6, 10) * x2, 1000)
    IN  RoundDiv(10000 - RoundDiv(x2, 2) + RoundDiv(x4, 24)
                       - RoundDiv(x6, 720) + RoundDiv(x8, 40320), 10)

\* CosQ tabulated over the quarter period
CosTable == [x \in 0..HalfPi |-> CosQ(x)]

\* f32::cos
Cos(a) ==
    LET r == a % TwoPi
        s == IF r > Pi THEN TwoPi - r ELSE r
    IN  IF s > HalfPi THEN -CosTable[Pi - s] ELSE CosTable[s]

\* f32::sin
Sin(a) == Cos(a - HalfPi)

\* least angle in lo..hi whose cosine is <= y (Cos is non-increasing on 0..Pi)
RECURSIVE AcosLow(_, _, _)
AcosLow(y, lo, hi) ==
    IF lo >= hi THEN lo
    ELSE LET mid == (lo + hi) \div 2
         IN  IF Cos(mid) > y THEN AcosLow(y, mid + 1, hi)
                             ELSE AcosLow(y, lo, mid)

\* greatest angle in lo..hi whose cosine is >= y
RECURSIVE AcosHigh(_, _, _)
AcosHigh(y, lo, hi) ==
    IF lo >= hi THEN lo
    ELSE LET mid == (lo + hi + 1) \div 2
         IN  IF Cos(mid) < y THEN AcosHigh(y, lo, mid - 1)
                             ELSE AcosHigh(y, mid, hi)

\* the angle in [0, pi] with the given cosine: the middle of the angles
\* whose fixed-point cosine is y
AcosTable ==
    [y \in (-Scale)..Scale |-> (AcosLow(y, 0, Pi) + AcosHigh(y, 0, Pi)) \div 2]

\* f32::acos. Outside [-1, 1] f32::acos is NaN; the model has no value there
\* (the table has no such entry).
Acos(y) == AcosTable[y]

\* f32::signum: 1.0 for positive numbers and +0.0, -1.0 for negative ones
Signum(x) == IF x >= 0 THEN 1 ELSE -1

\* f32::clamp
Clamp(x, lo, hi) == IF x < lo THEN lo ELSE IF x > hi THEN hi ELSE x

(***************************************************************************)
(* math/mod.rs                                                             *)
(***************************************************************************)
Vec3f(x, y, z) == [x |-> x, y |-> y, z |-> z]
Vec2f(x, y) == [x |-> x, y |-> y]
Ext2(w, h) == [w |-> w, h |-> h]

\* impl Add / Sub for Vec3f, component-wise
VAdd(a, b) == Vec3f(a.x + b.x, a.y + b.y, a.z + b.z)
VSub(a, b) == Vec3f(a.x - b.x, a.y - b.y, a.z - b.z)
\* impl Mul<f32> / Div<f32> for Vec3f
VMul(a, s) == Vec3f(FMul(a.x, s), FMul(a.y, s), FMul(a.z, s))
VDiv(a, s) == Vec3f(FDiv(a.x, s), FDiv(a.y, s), FDiv(a.z, s))

\* a vector whose components are all NaN: what 0.0 / 0.0 yields in each
\* component when the zero vector is divided by its length, and what every
\* operation on such a vector yields
NaNVec == [nan |-> TRUE]
IsNaN(v) == "nan" \in DOMAIN v

\* the cross product with the sign of its y component reversed
Rem_SignError(a, b) ==
    IF IsNaN(a) \/ IsNaN(b) THEN NaNVec
    ELSE Vec3f(RoundDiv(a.y * b.z - a.z * b.y, Scale),
               RoundDiv(a.x * b.z - a.z * b.x, Scale),
               RoundDiv(a.x * b.y - a.y * b.x, Scale))

\* impl Rem for Vec3f: cross product
Rem(a, b) ==
    IF IsNaN(a) \/ IsNaN(b) THEN NaNVec
    ELSE Vec3f(RoundDiv(a.y * b.z - a.z * b.y, Scale),
               RoundDiv(a.z * b.x - a.x * b.z, Scale),
               RoundDiv(a.x * b.y - a.y * b.x, Scale))

\* impl BitXor for Vec3f: dot product
BitXor(a, b) == RoundDiv(a.x * b.x + a.y * b.y + a.z * b.z, Scale)

\* Vec3f::length2, kept at double scale so that short vectors keep the
\* relative precision f32 has
length2(v) == v.x * v.x + v.y * v.y + v.z * v.z
\* Vec3f::length
length(v) == Sqrt(length2(v))
\* Vec3f::normalized
normalized(v) ==
    IF IsNaN(v) THEN NaNVec
    ELSE IF length(v) = 0 THEN NaNVec
    ELSE VDiv(v, length(v))

\* Vec2f::length
length_2f(v) == Sqrt(v.x * v.x + v.y * v.y)

(***************************************************************************)
(* input module (main.rs:6, source not at hand): per-key pressed / changed *)
(***************************************************************************)
KeyCodes == <<"F11", "KeyW", "KeyS", "ArrowUp", "ArrowDown", "ArrowRight",
              "ArrowLeft", "KeyD", "KeyA", "KeyR", "KeyF">>
Keys == {KeyCodes[i] : i \in 1..Len(KeyCodes)}

\* Input::new
InputNew == [k \in Keys |-> [pressed |-> FALSE, changed |-> FALSE]]
\* Input::on_key_change
on_key_change(inp, key, is_pressed) ==
    [inp EXCEPT ![key] = [pressed |-> is_pressed, changed |-> TRUE]]
\* Input::get_state: the snapshot read during a tick
get_state(inp) == inp
\* State::is_key_pressed
is_key_pressed(input_state, key) == input_state[key].pressed
\* State::is_key_clicked
is_key_clicked(input_state, key) ==
    input_state[key].pressed /\ input_state[key].changed
\* Input::clear_changed
clear_changed(inp) == [k \in Keys |-> [inp[k] EXCEPT !.changed = FALSE]]

(***************************************************************************)
(* timer module (main.rs:5, source not at hand)                            *)
(***************************************************************************)
\* Timer::new
TimerNew == [delta_time |-> 0]
\* Timer::response: dt is the time since the previous sample
response(t, dt) == [t EXCEPT !.delta_time = dt]
\* State::get_delta_time
get_delta_time(timer_state) == timer_state.delta_time

(***************************************************************************)
(* main.rs: Camera                                                         *)
(***************************************************************************)
\* Camera::new
CameraNew ==
    [location  |-> Vec3f(0, 0, Scale),
     at        |-> Vec3f(0, 0, 0),
     direction |-> Vec3f(0, 0, -Scale),
     right     |-> Vec3f(Scale, 0, 0),
     up        |-> Vec3f(0, Scale, 0)]

\* Camera::set
CameraSet(location, at, approx_up) ==
    LET direction == normalized(VSub(at, location))
        right     == normalized(Rem(direction, approx_up))
        up        == normalized(Rem(right, direction))
    IN  [location |-> location, at |-> at,
         direction |-> direction, right |-> right, up |-> up]

WorldUp == Vec3f(0, Scale, 0)

(***************************************************************************)
(* render/mod.rs: Render                                                   *)
(***************************************************************************)
\* Render::create_collectors: one texture of N = 2 layers at the extent, one
\* view per layer; nothing has been drawn into a new layer (written = -1)
create_collectors(extent) ==
    [i \in {0, 1} |-> [extent |-> extent, layer |-> i, written |-> -1]]

\* static_frame_index is a u32.  Its values from 2^31 up are held as the
\* signed integer with the same 32 bits, 2^32 - 1 as -1: + 1 and % 2 then
\* give what wrapping u32 arithmetic gives, and U32Less is the u32 order.
\* (The written mark of a collector drawn at 2^32 - 1 is then that of a new
\* layer; marks are read only where the counter is small.)
U32Max == -1
U32Less(a, b) == IF (a < 0) = (b < 0) THEN a < b ELSE b < 0

\* Render::new (the fields the frame loop reads or writes).  calls is a
\* history of the record, not a field of the struct: the latest of new,
\* resize and set_camera, followed by one "render" for every render() since
\* then that acquired a surface image and submitted its passes.
RenderNew(surface_ext) ==
    [static_frame_index    |-> 0,
     calls                 |-> <<"new">>,
     collectors            |-> create_collectors(surface_ext),
     surface_configuration |-> [width |-> surface_ext.w, height |-> surface_ext.h],
     camera_buffer         |-> <<>>,
     system_buffer         |-> <<>>,
     submitted             |-> <<>>]

\* resize returning early when the extent is the one already configured
RenderResize_SkipSame(r, new_extent) ==
    IF /\ r.surface_configuration.width = new_extent.w
       /\ r.surface_configuration.height = new_extent.h
    THEN [r EXCEPT !.calls = <<"resize">>]
    ELSE [r EXCEPT !.static_frame_index = 0,
                   !.calls = <<"resize">>,
                   !.collectors = create_collectors(new_extent),
                   !.surface_configuration =
                       [width |-> new_extent.w, height |-> new_extent.h]]

\* Render::resize
RenderResize(r, new_extent) ==
    [r EXCEPT !.static_frame_index = 0,
              !.calls = <<"resize">>,
              !.collectors = create_collectors(new_extent),
              !.surface_configuration =
                  [width |-> new_extent.w, height |-> new_extent.h]]

\* the camera record with near moved behind the projection extent
CameraData_NearLast(camera_data) ==
    <<camera_data.location, 0, camera_data.dir, camera_data.projection_extent.w,
      camera_data.right, camera_data.projection_extent.h,
      camera_data.up, camera_data.near>>

\* struct CameraData as written by Render::set_camera, in field order
CameraData(camera_data) ==
    <<camera_data.location, 0, camera_data.dir, camera_data.near,
      camera_data.right, camera_data.projection_extent.w,
      camera_data.up, camera_data.projection_extent.h>>

\* set_camera also creating the collectors anew
RenderSetCamera_Recreate(r, camera_data) ==
    [r EXCEPT !.camera_buffer = CameraData(camera_data),
              !.collectors = create_collectors(r.collectors[0].extent),
              !.calls = <<"set_camera">>,
              !.static_frame_index = 0]

\* set_camera without the reset of the frame counter
RenderSetCamera_NoReset(r, camera_data) ==
    [r EXCEPT !.camera_buffer = CameraData(camera_data),
              !.calls = <<"set_camera">>]

\* Render::set_camera
RenderSetCamera(r, camera_data) ==
    [r EXCEPT !.camera_buffer = CameraData(camera_data),
              !.calls = <<"set_camera">>,
              !.static_frame_index = 0]

\* the two collector indices Render::render takes (render/mod.rs:362-363)
\* the read index taken as the target index is
ReadIndex_Target(static_frame_index) == (static_frame_index + 1) % 2
ReadIndex(static_frame_index) == static_frame_index % 2
\* the target index taken from the counter itself, without the + 1
TargetIndex_NoIncrement(static_frame_index) == static_frame_index % 2
TargetIndex(static_frame_index) == (static_frame_index + 1) % 2

\* the milliseconds taken without the mask
SystemTime_Unmasked(now) == IF now < 0 THEN 0 ELSE now

TimeMask == 16777215
\* the time field of SystemData: milliseconds since the epoch, masked with
\* 0xFFFFFF, in seconds; 0.0 when the clock is before the epoch
SystemTime(now) == IF now < 0 THEN 0 ELSE now % (TimeMask + 1)

\* the system record holding the counter as it is after the increment
SystemData_AfterIncrement(r, now) ==
    LET resolution == Ext2(r.surface_configuration.width * Scale,
                           r.surface_configuration.height * Scale)
        texel_size == Ext2(FDiv(Scale, resolution.w), FDiv(Scale, resolution.h))
    IN  <<resolution, SystemTime(now), r.static_frame_index + 1, texel_size>>

\* struct SystemData as written by Render::render, in field order
SystemData(r, now) ==
    LET resolution == Ext2(r.surface_configuration.width * Scale,
                           r.surface_configuration.height * Scale)
        texel_size == Ext2(FDiv(Scale, resolution.w), FDiv(Scale, resolution.h))
    IN  <<resolution, SystemTime(now), r.static_frame_index, texel_size>>

\* the present pass bound to the collector the accumulate pass read
RenderPasses_PresentRead(r) ==
    LET read_collector   == ReadIndex(r.static_frame_index)
        target_collector == TargetIndex(r.static_frame_index)
    IN  <<[pipeline |-> "render_pipeline", view |-> target_collector,
           bind_group |-> read_collector],
          [pipeline |-> "place_pipeline", view |-> "surface",
           bind_group |-> read_collector]>>

\* the command buffer Render::render records: the accumulate pass, then the
\* present pass
RenderPasses(r) ==
    LET read_collector   == ReadIndex(r.static_frame_index)
        target_collector == TargetIndex(r.static_frame_index)
    IN  <<[pipeline |-> "render_pipeline", view |-> target_collector,
           bind_group |-> read_collector],
          [pipeline |-> "place_pipeline", view |-> "surface",
           bind_group |-> target_collector]>>

\* render() advancing the counter by two after its passes
RenderRender_DoubleStep(r, acquired, now) ==
    IF ~acquired THEN r
    ELSE [r EXCEPT !.system_buffer = SystemData(r, now),
                   !.submitted = RenderPasses(r),
                   !.calls = Append(r.calls, "render"),
                   !.collectors[TargetIndex(r.static_frame_index)].written =
                       r.static_frame_index,
                   !.static_frame_index = r.static_frame_index + 2]

\* render() advancing the counter although no surface image was acquired
RenderRender_AdvanceOnError(r, acquired, now) ==
    IF ~acquired THEN [r EXCEPT !.static_frame_index = r.static_frame_index + 1]
    ELSE [r EXCEPT !.system_buffer = SystemData(r, now),
                   !.submitted = RenderPasses(r),
                   !.calls = Append(r.calls, "render"),
                   !.collectors[TargetIndex(r.static_frame_index)].written =
                       r.static_frame_index,
                   !.static_frame_index = r.static_frame_index + 1]

\* Render::render; acquired is whether get_current_texture returned Ok
RenderRender(r, acquired, now) ==
    IF ~acquired THEN r
    ELSE [r EXCEPT !.system_buffer = SystemData(r, now),
                   !.submitted = RenderPasses(r),
                   !.calls = Append(r.calls, "render"),
                   !.collectors[TargetIndex(r.static_frame_index)].written =
                       r.static_frame_index,
                   !.static_frame_index = r.static_frame_index + 1]

\* the steps of render() with the counter incremented before the passes
RenderTrace_IncrementFirst(acquired) ==
    IF ~acquired THEN <<"get_current_texture:Err">>
    ELSE <<"get_current_texture:Ok", "static_frame_index+=1", "write_system_buffer",
           "accumulate_pass", "present_pass", "submit">>

\* the steps of Render::render, in program order
RenderTrace(acquired) ==
    IF ~acquired THEN <<"get_current_texture:Err">>
    ELSE <<"get_current_texture:Ok", "write_system_buffer", "accumulate_pass",
           "present_pass", "submit", "static_frame_index+=1">>

(***************************************************************************)
(* main.rs: System                                                         *)
(***************************************************************************)
\* extents the window system may report; the window is created at the first
Sizes == <<Ext2(800, 600), Ext2(600, 800), Ext2(400, 400), Ext2(1, 1)>>
SizeSet == {Sizes[1], Sizes[2]}

\* the width taken for the smaller side
Min_First(a, b) == a

Min(a, b) == IF a < b THEN a ELSE b

\* the descriptor System::update_render_camera builds
CameraDescriptor(cam, size) ==
    LET min == Min(size.w, size.h) * Scale
    IN  [at |-> cam.at, dir |-> cam.direction, location |-> cam.location,
         near |-> Scale,
         projection_extent |-> Ext2(FDiv(size.w * Scale, min),
                                    FDiv(size.h * Scale, min)),
         right |-> cam.right, up |-> cam.up]

\* the camera upload that also reallocates the collectors for the window
update_render_camera_Resizing(r, cam, win) ==
    RenderSetCamera(RenderResize(r, win.inner_size),
                    CameraDescriptor(cam, win.inner_size))

\* System::update_render_camera
update_render_camera(r, cam, win) ==
    RenderSetCamera(r, CameraDescriptor(cam, win.inner_size))

\* the movement at one unit per second
MoveSpeed_Unit == Scale

\* the speed factors and thresholds of the camera control step
MoveSpeed == 8000
RotateSpeed == 2000
AxisThreshold == 10
AzimuthMargin == 10

Bit(b) == IF b THEN 1 ELSE 0

\* the camera update never skipped
axes_idle_Never(move_axis, rotate_axis) == FALSE

\* the test that skips the camera update (main.rs:137)
axes_idle(move_axis, rotate_axis) ==
    length(move_axis) <= AxisThreshold /\ length_2f(rotate_axis) <= AxisThreshold

\* the azimuth clamped with a margin ten times smaller
clamp_azimuth_Narrow(azimuth) == Clamp(azimuth, 1, Pi - 1)

\* azimuth.clamp(0.01, PI - 0.01) (main.rs:158)
clamp_azimuth(azimuth) == Clamp(azimuth, AzimuthMargin, Pi - AzimuthMargin)

\* the target placed two units ahead of the location
look_at_TwoAhead(location, new_direction) ==
    VAdd(location, VMul(new_direction, 2 * Scale))

\* the target camera.set is given: location + movement_delta + new_direction
\* (main.rs:166)
look_at(location, new_direction) == VAdd(location, new_direction)

\* the 'camera_control block of the RedrawRequested arm: the value of
\* camera_update_required, the camera it leaves and its locals
camera_control(cam, input_state, timer_state) ==
    LET move_axis == Vec3f(
            (Bit(is_key_pressed(input_state, "KeyD")) - Bit(is_key_pressed(input_state, "KeyA"))) * Scale,
            (Bit(is_key_pressed(input_state, "KeyR")) - Bit(is_key_pressed(input_state, "KeyF"))) * Scale,
            (Bit(is_key_pressed(input_state, "KeyW")) - Bit(is_key_pressed(input_state, "KeyS"))) * Scale)
        rotate_axis == Vec2f(
            (Bit(is_key_pressed(input_state, "ArrowRight")) - Bit(is_key_pressed(input_state, "ArrowLeft"))) * Scale,
            (Bit(is_key_pressed(input_state, "ArrowDown")) - Bit(is_key_pressed(input_state, "ArrowUp"))) * Scale)
        dt == get_delta_time(timer_state)
    IN  IF axes_idle(move_axis, rotate_axis)
        THEN [required |-> FALSE, camera |-> cam,
              move_axis |-> move_axis, rotate_axis |-> rotate_axis]
        ELSE
          LET movement_delta ==
                  VMul(VMul(VAdd(VAdd(VMul(cam.right, move_axis.x),
                                      VMul(cam.up, move_axis.y)),
                                 VMul(cam.direction, move_axis.z)),
                            dt),
                       MoveSpeed)
              azimuth0 == Acos(cam.direction.y)
              elevator0 == Signum(cam.direction.z) *
                  Acos(FDiv(cam.direction.x,
                            Sqrt(cam.direction.x * cam.direction.x +
                                 cam.direction.z * cam.direction.z)))
              elevator == elevator0 + FMul(FMul(rotate_axis.x, dt), RotateSpeed)
              azimuth1 == azimuth0 + FMul(FMul(rotate_axis.y, dt), RotateSpeed)
              azimuth == clamp_azimuth(azimuth1)
              new_direction == Vec3f(FMul(Sin(azimuth), Cos(elevator)),
                                     Cos(azimuth),
                                     FMul(Sin(azimuth), Sin(elevator)))
              location == VAdd(cam.location, movement_delta)
          IN  [required |-> TRUE,
               camera |-> CameraSet(location, look_at(location, new_direction), WorldUp),
               move_axis |-> move_axis, rotate_axis |-> rotate_axis,
               movement_delta |-> movement_delta,
               azimuth |-> azimuth, elevator |-> elevator,
               new_direction |-> new_direction]

\* the window Application::resumed creates
WindowNew == [inner_size |-> Sizes[1], fullscreen |-> FALSE,
              redraw_requested |-> FALSE]

\* the camera System::new leaves: Camera::new, then set (main.rs:59-63)
StartupCamera ==
    CameraSet(Vec3f(-3200, 2800, 300), Vec3f(-2400, 2400, -100), WorldUp)

\* System::new: the render it leaves
StartupRender ==
    update_render_camera(RenderNew(WindowNew.inner_size), StartupCamera, WindowNew)

(***************************************************************************)
(* Events: Application::resumed and System::on_window_event                *)
(***************************************************************************)
\* the key codes of the keyboard events delivered
EventKeys == {"F11", "KeyW"}
\* the delta times Timer::response may measure, in milliseconds
DeltaTimes == {100}
\* the system clock at a render, in milliseconds since the epoch
Clocks == {16777216 + 2500}

Init ==
    /\ system = "None"
    /\ exiting = FALSE
    /\ window = WindowNew
    /\ render = StartupRender
    /\ timer = TimerNew
    /\ input = InputNew
    /\ camera = StartupCamera
    /\ trace = <<>>
    /\ ticks = 0
    /\ args = <<>>

\* Application::resumed: create the window and the System. winit delivers
\* it once, at startup, on the desktop platform the program targets.
Resumed ==
    /\ ~exiting
    /\ system = "None"
    /\ \E created \in BOOLEAN :
         IF created
         THEN /\ system' = "Some"
              /\ window' = WindowNew
              /\ render' = StartupRender
              /\ timer' = TimerNew
              /\ input' = InputNew
              /\ camera' = StartupCamera
              /\ trace' = <<"resumed", "System::new">>
         ELSE /\ trace' = <<"resumed">>
              /\ UNCHANGED <<system, window, render, timer, input, camera>>
    /\ UNCHANGED <<exiting, ticks, args>>

\* Application::window_event while there is no System
EarlyWindowEvent ==
    /\ ~exiting
    /\ system = "None"
    /\ trace' = <<"window_event", "return">>
    /\ UNCHANGED <<system, exiting, window, render, timer, input, camera, ticks, args>>

\* an event for another window's id dropping the input state and asking for
\* a redraw
ForeignWindowEvent_Handled ==
    /\ ~exiting
    /\ system = "Some"
    /\ input' = InputNew
    /\ window' = [window EXCEPT !.redraw_requested = TRUE]
    /\ trace' = <<"on_window_event", "return">>
    /\ UNCHANGED <<system, exiting, render, timer, camera, ticks, args>>

\* on_window_event for another window's id
ForeignWindowEvent ==
    /\ ~exiting
    /\ system = "Some"
    /\ trace' = <<"on_window_event", "return">>
    /\ UNCHANGED <<system, exiting, window, render, timer, input, camera, ticks, args>>

\* the close request also dropping the input state
CloseRequested_ClearInput ==
    /\ ~exiting
    /\ system = "Some"
    /\ exiting' = TRUE
    /\ input' = InputNew
    /\ trace' = <<"CloseRequested", "event_loop.exit">>
    /\ UNCHANGED <<system, window, render, timer, camera, ticks, args>>

\* WindowEvent::CloseRequested
CloseRequested ==
    /\ ~exiting
    /\ system = "Some"
    /\ exiting' = TRUE
    /\ trace' = <<"CloseRequested", "event_loop.exit">>
    /\ UNCHANGED <<system, window, render, timer, input, camera, ticks, args>>

\* WindowEvent::KeyboardInput with a physical key code
KeyboardInput(code, pressed) ==
    /\ ~exiting
    /\ system = "Some"
    /\ input' = on_key_change(input, code, pressed)
    /\ trace' = <<"KeyboardInput", "input.on_key_change">>
    /\ UNCHANGED <<system, exiting, window, render, timer, camera, ticks, args>>

\* WindowEvent::Resized; the window reports the new extent as its inner size
Resized(new_extent) ==
    /\ ~exiting
    /\ system = "Some"
    /\ window' = [window EXCEPT !.inner_size = new_extent]
    /\ render' = update_render_camera(RenderResize(render, new_extent), camera, window')
    /\ trace' = <<"Resized", "render.resize", "update_render_camera">>
    /\ UNCHANGED <<system, exiting, timer, input, camera, ticks, args>>

\* the steps of the arm with clear_changed placed right after get_state
RedrawTrace_ClearFirst(clicked, required, acquired) ==
    <<"RedrawRequested", "timer.response", "input.get_state", "input.clear_changed",
      "is_key_clicked(F11)">>
    \o (IF clicked THEN <<"window.set_fullscreen">> ELSE <<>>)
    \o <<"camera_control">>
    \o (IF required THEN <<"camera.set">> ELSE <<>>)
    \o (IF required THEN <<"update_render_camera">> ELSE <<>>)
    \o <<"render.render">>
    \o RenderTrace(acquired)
    \o <<"window.request_redraw">>

\* the steps of the RedrawRequested arm, in program order; camera_control
\* is the labelled block with its is_key_pressed reads (main.rs:126-168)
RedrawTrace(clicked, required, acquired) ==
    <<"RedrawRequested", "timer.response", "input.get_state", "is_key_clicked(F11)">>
    \o (IF clicked THEN <<"window.set_fullscreen">> ELSE <<>>)
    \o <<"camera_control">>
    \o (IF required THEN <<"camera.set">> ELSE <<>>)
    \o <<"input.clear_changed">>
    \o (IF required THEN <<"update_render_camera">> ELSE <<>>)
    \o <<"render.render">>
    \o RenderTrace(acquired)
    \o <<"window.request_redraw">>

\* the F11 test and the fullscreen toggle (main.rs:117-123)
f11_toggle(win, input_state) ==
    IF is_key_clicked(input_state, "F11")
    THEN [win EXCEPT !.fullscreen = ~win.fullscreen]
    ELSE win

\* the tick without its clear_changed call
tick_clear_changed_Skipped(inp) == inp

\* self.input.clear_changed() (main.rs:186)
tick_clear_changed(inp) == clear_changed(inp)

\* the camera uploaded in every tick
tick_update_camera_Always(r, required, cam, win) ==
    update_render_camera(r, cam, win)

\* if camera_update_required { self.update_render_camera() } (main.rs:188-190)
tick_update_camera(r, required, cam, win) ==
    IF required THEN update_render_camera(r, cam, win) ELSE r

\* the tick ending without a request for the next redraw
tick_request_redraw_Never(win) == win

\* self.window.request_redraw() (main.rs:192)
tick_request_redraw(win) == [win EXCEPT !.redraw_requested = TRUE]

\* WindowEvent::RedrawRequested: one tick of the frame loop
RedrawRequested(dt, acquired, now) ==
    /\ ~exiting
    /\ system = "Some"
    /\ ticks < MaxTicks
    /\ LET timer_state == response(timer, dt)
           input_state == get_state(input)
           clicked     == is_key_clicked(input_state, "F11")
           window1     == f11_toggle(window, input_state)
           control     == camera_control(camera, input_state, timer_state)
           render1     == tick_update_camera(render, control.required,
                                             control.camera, window1)
       IN  /\ timer' = timer_state
           /\ camera' = control.camera
           /\ input' = tick_clear_changed(input)
           /\ render' = RenderRender(render1, acquired, now)
           /\ window' = tick_request_redraw(window1)
           /\ trace' = RedrawTrace(clicked, control.required, acquired)
    /\ ticks' = ticks + 1
    /\ UNCHANGED <<system, exiting, args>>

\* the steps of the arm up to the overflow check that fails in render()
PanicTrace(clicked, required) ==
    LET whole == RedrawTrace(clicked, required, TRUE)
    IN  SubSeq(whole, 1, Len(whole) - 5) \o <<"panic">>

\* WindowEvent::RedrawRequested in a build with overflow checks when render()
\* finds the counter at the u32 maximum: static_frame_index + 1
\* (render/mod.rs:363) panics after the system record was written and before
\* any pass is recorded, and the process ends.  In a build without overflow
\* checks the same tick is RedrawRequested, where the sum wraps to 0.
RedrawPanicked(dt, now) ==
    /\ ~exiting
    /\ system = "Some"
    /\ ticks < MaxTicks
    /\ LET timer_state == response(timer, dt)
           input_state == get_state(input)
           clicked     == is_key_clicked(input_state, "F11")
           window1     == f11_toggle(window, input_state)
           control     == camera_control(camera, input_state, timer_state)
           render1     == tick_update_camera(render, control.required,
                                             control.camera, window1)
       IN  /\ render1.static_frame_index = U32Max
           /\ timer' = timer_state
           /\ camera' = control.camera
           /\ input' = tick_clear_changed(input)
           /\ render' = [render1 EXCEPT !.system_buffer = SystemData(render1, now)]
           /\ window' = window1
           /\ trace' = PanicTrace(clicked, control.required)
    /\ system' = "Panicked"
    /\ ticks' = ticks + 1
    /\ UNCHANGED <<exiting, args>>

Next ==
    \/ Resumed
    \/ EarlyWindowEvent
    \/ ForeignWindowEvent
    \/ CloseRequested
    \/ \E code \in EventKeys, pressed \in BOOLEAN : KeyboardInput(code, pressed)
    \/ \E new_extent \in SizeSet : Resized(new_extent)
    \/ \E dt \in DeltaTimes, acquired \in BOOLEAN, now \in Clocks :
           RedrawRequested(dt, acquired, now)

Spec == Init /\ [][Next]_vars

(***************************************************************************)
(* Reading a step from the trace its handler leaves                        *)
(***************************************************************************)
Range(seq) == {seq[i] : i \in 1..Len(seq)}
\* the handler that took the most recent step
Handler(tr) == IF tr = <<>> THEN "" ELSE tr[1]
\* the step that has just been taken is a redraw tick
TickStep == ticks' = ticks + 1
\* ... in which the camera control step updated the camera
CameraTick == TickStep /\ "camera.set" \in Range(trace')
\* ... is the handling of a Resized event
ResizedStep == Handler(trace') = "Resized"
\* ... submitted an accumulate pass and a present pass
PassIssued == "accumulate_pass" \in Range(trace')
\* ... is a tick whose surface image could not be acquired
FailedTick == TickStep /\ "get_current_texture:Err" \in Range(trace')
\* the frame index the most recently submitted accumulate pass ran with: the
\* static_frame_index field of the system record uploaded for it
PassFrameIndex(r) == r.system_buffer[3]

(***************************************************************************)
(* C1  After a tick whose camera control step updates the camera, and      *)
(* after a Resized event, the next accumulate pass that is issued runs     *)
(* with frame index 0: the step itself issues it with 0, or it leaves the  *)
(* counter at 0, and a counter at 0 stays 0 until a pass is issued, which  *)
(* then runs with 0.                                                       *)
(***************************************************************************)
RunsWithZero(r) ==
    /\ PassFrameIndex(r) = 0
    /\ r.submitted[1].bind_group = 0
    /\ r.submitted[1].view = 1

C1_NextPassAtZero ==
    [][ /\ (CameraTick \/ ResizedStep) =>
              IF PassIssued THEN RunsWithZero(render')
                            ELSE render'.static_frame_index = 0
        /\ (render.static_frame_index = 0 /\ ~CameraTick /\ ~ResizedStep) =>
              IF PassIssued THEN RunsWithZero(render')
                            ELSE render'.static_frame_index = 0
      ]_vars

\* a camera-updating tick issued its pass with index 0 after the counter had
\* reached 2 (collector 0 was last written by the pass of frame 1)
C1_Witness ==
    /\ "camera.set" \in Range(trace)
    /\ "accumulate_pass" \in Range(trace)
    /\ render.collectors[0].written = 1
    /\ PassFrameIndex(render) = 0

\* a Resized event arrived after the counter had advanced, and the next
\* tick issued its pass with index 0
C1_WitnessResize ==
    /\ Handler(trace) = "RedrawRequested"
    /\ "camera.set" \notin Range(trace)
    /\ "accumulate_pass" \in Range(trace)
    /\ window.inner_size = Sizes[2]
    /\ ticks = 3
    /\ PassFrameIndex(render) = 0

\* no control key is pressed, or every pressed one is cancelled by its
\* opposing key: both axes of the camera control step are zero
NoAxis(inp) ==
    /\ inp["KeyD"].pressed = inp["KeyA"].pressed
    /\ inp["KeyR"].pressed = inp["KeyF"].pressed
    /\ inp["KeyW"].pressed = inp["KeyS"].pressed
    /\ inp["ArrowRight"].pressed = inp["ArrowLeft"].pressed
    /\ inp["ArrowDown"].pressed = inp["ArrowUp"].pressed

(***************************************************************************)
(* C2 as stated: in a tick with no camera-changing input pressed (a tick   *)
(* is no resize), frame_index increases by exactly 1.                      *)
(***************************************************************************)
C2_Original ==
    [][(TickStep /\ NoAxis(input)) =>
           render'.static_frame_index = render.static_frame_index + 1]_vars

(***************************************************************************)
(* C2 amended: in a tick with no camera-changing input pressed,            *)
(* frame_index increases by exactly 1 when the surface image is acquired   *)
(* and keeps its value when the acquisition fails; it is never reset.      *)
(***************************************************************************)
C2_Amended ==
    [][(TickStep /\ NoAxis(input)) =>
           render'.static_frame_index =
               render.static_frame_index + (IF FailedTick THEN 0 ELSE 1)]_vars

\* two ticks advanced the counter to 2, a third failed to acquire the
\* surface image and left it at 2
C2_Witness ==
    /\ ticks = 3
    /\ "get_current_texture:Err" \in Range(trace)
    /\ "camera.set" \notin Range(trace)
    /\ render.static_frame_index = 2
    /\ PassFrameIndex(render) = 1

(***************************************************************************)
(* C4  The most recent submission holds the accumulate pass and then the   *)
(* present pass; with N the frame index uploaded for it, the accumulate    *)
(* pass reads collector N mod 2 and draws into collector (N + 1) mod 2,    *)
(* and the present pass samples the collector the accumulate pass drew     *)
(* into, not the one it read, and draws into the surface image.            *)
(***************************************************************************)
Position(tr, step) == CHOOSE i \in 1..Len(tr) : tr[i] = step

C4_PresentSamplesWritten ==
    /\ render.submitted # <<>> =>
         LET n == PassFrameIndex(render)
             accumulate == render.submitted[1]
             present == render.submitted[2]
         IN  /\ Len(render.submitted) = 2
             /\ accumulate.pipeline = "render_pipeline"
             /\ present.pipeline = "place_pipeline"
             /\ \E k \in 0..n : n = 2 * k + accumulate.bind_group
             /\ \E k \in 0..(n + 1) : n + 1 = 2 * k + accumulate.view
             /\ accumulate.bind_group \in {0, 1}
             /\ accumulate.view \in {0, 1}
             /\ present.bind_group = accumulate.view
             /\ present.bind_group # accumulate.bind_group
             /\ present.view = "surface"
    /\ "accumulate_pass" \in Range(trace) =>
         /\ Position(trace, "accumulate_pass") < Position(trace, "present_pass")
         /\ Position(trace, "present_pass") < Position(trace, "submit")

\* the pass of frame 1 was submitted: it read collector 1 and drew into
\* collector 0, which the present pass sampled
C4_Witness ==
    /\ "accumulate_pass" \in Range(trace)
    /\ PassFrameIndex(render) = 1
    /\ render.submitted[1].bind_group = 1
    /\ render.submitted[2].bind_group = 0

(***************************************************************************)
(* SpecBuffers: the frame loop started after n ticks that each acquired    *)
(* the surface image, with no key pressed and no resize, n in              *)
(* 0..MaxFrameIndex; redraw ticks follow.                                  *)
(***************************************************************************)
RECURSIVE RenderAfter(_)
RenderAfter(n) ==
    IF n = 0 THEN StartupRender
    ELSE RenderRender(RenderAfter(n - 1), TRUE, CHOOSE now \in Clocks : TRUE)

InitBuffers ==
    \E n \in 0..MaxFrameIndex :
        /\ system = "Some"
        /\ exiting = FALSE
        /\ window = [WindowNew EXCEPT !.redraw_requested = (n > 0)]
        /\ render = RenderAfter(n)
        /\ timer = IF n > 0 THEN response(TimerNew, 100) ELSE TimerNew
        /\ input = InputNew
        /\ camera = StartupCamera
        /\ trace = IF n > 0 THEN RedrawTrace(FALSE, FALSE, TRUE)
                            ELSE <<"resumed", "System::new">>
        /\ ticks = 0
        /\ args = <<>>

NextBuffers ==
    \E dt \in DeltaTimes, acquired \in BOOLEAN, now \in Clocks :
        RedrawRequested(dt, acquired, now)

SpecBuffers == InitBuffers /\ [][NextBuffers]_vars

(***************************************************************************)
(* C3  For every frame index N a render selects read = N mod 2 and         *)
(* write = (N + 1) mod 2: two distinct indices from {0, 1}; and between    *)
(* consecutive frames the roles swap: the pass of frame N + 1 reads the    *)
(* collector the pass of frame N wrote and writes the one it read.         *)
(***************************************************************************)
C3_SelectBuffers ==
    [][(TickStep /\ PassIssued) =>
         LET N == render.static_frame_index
             read == render'.submitted[1].bind_group
             write == render'.submitted[1].view
         IN  /\ PassFrameIndex(render') = N
             /\ read \in {0, 1}
             /\ write \in {0, 1}
             /\ read # write
             /\ \E k \in 0..N : N = 2 * k + read
             /\ \E k \in 0..(N + 1) : N + 1 = 2 * k + write
             /\ (N > 0 /\ PassFrameIndex(render) = N - 1) =>
                   /\ read = render.submitted[1].view
                   /\ write = render.submitted[1].bind_group
      ]_vars

\* the pass of an odd and large frame index followed the pass before it
C3_Witness ==
    /\ "accumulate_pass" \in Range(trace)
    /\ ticks = 2
    /\ PassFrameIndex(render) > MaxFrameIndex
    /\ render.submitted[1].bind_group = 1
    /\ render.submitted[1].view = 0

(***************************************************************************)
(* C5 as stated: a tick whose surface acquisition fails leaves the camera, *)
(* the frame counter and the input state (pressed and changed flags) as    *)
(* they were, and requests the next redraw.                                *)
(***************************************************************************)
C5_Original ==
    [][FailedTick =>
         /\ camera' = camera
         /\ render'.static_frame_index = render.static_frame_index
         /\ input' = input
         /\ window'.redraw_requested]_vars

(***************************************************************************)
(* C5 amended: a tick whose surface acquisition fails issues no pass and   *)
(* does not increment the frame counter, leaves the pressed flags as they  *)
(* were and requests the next redraw. The steps before render() have run:  *)
(* the changed flags are cleared and, if a control axis is non-zero, the   *)
(* camera has been set anew, its payload uploaded and the frame counter    *)
(* reset to 0. With both axes zero the camera and the whole render state   *)
(* are as before the tick.                                                 *)
(***************************************************************************)
C5_Amended ==
    [][FailedTick =>
         /\ render'.submitted = render.submitted
         /\ render'.system_buffer = render.system_buffer
         /\ render'.collectors = render.collectors
         /\ \A k \in Keys : /\ input'[k].pressed = input[k].pressed
                            /\ ~input'[k].changed
         /\ IF NoAxis(input)
            THEN camera' = camera /\ render' = render
            ELSE /\ render'.static_frame_index = 0
                 /\ render'.camera_buffer =
                        CameraData(CameraDescriptor(camera', window'.inner_size))
         /\ window'.redraw_requested]_vars

\* a failed tick, after an earlier pass, in which the camera moved and the
\* counter was reset
C5_Witness ==
    /\ "get_current_texture:Err" \in Range(trace)
    /\ "camera.set" \in Range(trace)
    /\ render.submitted # <<>>
    /\ render.static_frame_index = 0
    /\ camera.location # StartupCamera.location

(***************************************************************************)
(* SpecCamera: the event loop with the keys that turn the camera up and    *)
(* down, and with zero, long and very long delta times                     *)
(***************************************************************************)
CameraKeys == {"ArrowUp", "ArrowDown"}
CameraDeltaTimes == {0, 700, 2000}

NextCamera ==
    \/ Resumed
    \/ \E code \in CameraKeys, pressed \in BOOLEAN : KeyboardInput(code, pressed)
    \/ \E dt \in CameraDeltaTimes, acquired \in BOOLEAN, now \in Clocks :
           RedrawRequested(dt, acquired, now)

SpecCamera == Init /\ [][NextCamera]_vars

(***************************************************************************)
(* C6  In a tick where no control key is pressed, or every pressed one is  *)
(* cancelled by its opposing key, the camera update is skipped: location,  *)
(* at, direction, right and up are unchanged, the camera payload is not    *)
(* uploaded again and frame_index is not reset.                            *)
(***************************************************************************)
C6_IdleTickKeepsCamera ==
    [][(TickStep /\ NoAxis(input)) =>
         /\ camera' = camera
         /\ "camera.set" \notin Range(trace')
         /\ "update_render_camera" \notin Range(trace')
         /\ render'.camera_buffer = render.camera_buffer
         /\ render'.static_frame_index >= render.static_frame_index
         /\ PassIssued => PassFrameIndex(render') = render.static_frame_index
      ]_vars

\* a tick with ArrowUp and ArrowDown both pressed went by after the camera
\* had been turned; the counter advanced past 0
C6_Witness ==
    /\ Handler(trace) = "RedrawRequested"
    /\ input["ArrowUp"].pressed /\ input["ArrowDown"].pressed
    /\ "camera.set" \notin Range(trace)
    /\ camera.direction # StartupCamera.direction
    /\ render.static_frame_index = 2

(***************************************************************************)
(* C7  Every call of resize leaves frame_index = 0 whatever the extent:    *)
(* the state a Resized event leaves has frame_index 0 and the surface and  *)
(* both collectors at the new extent; and from every reachable render      *)
(* state, resize to an extent, a render, and resize to the same extent     *)
(* again each leave frame_index 0, the second call leaving the same extent *)
(* and counter as the first.                                               *)
(***************************************************************************)
C7_ResizeResets ==
    /\ Handler(trace) = "Resized" =>
         /\ render.static_frame_index = 0
         /\ render.surface_configuration =
                [width |-> window.inner_size.w, height |-> window.inner_size.h]
         /\ \A i \in {0, 1} : render.collectors[i].extent = window.inner_size
    /\ \A e \in SizeSet, now \in Clocks :
         LET first  == RenderResize(render, e)
             between == RenderRender(first, TRUE, now)
             second == RenderResize(between, e)
             again  == RenderResize(first, e)
         IN  /\ first.static_frame_index = 0
             /\ between.static_frame_index = 1
             /\ second.static_frame_index = 0
             /\ second.surface_configuration = first.surface_configuration
             /\ second.collectors = first.collectors
             /\ again = first

\* a Resized event to the extent the last pass was rendered at: the counter
\* is back at 0 and the collectors are new
C7_Witness ==
    /\ Handler(trace) = "Resized"
    /\ render.system_buffer # <<>>
    /\ render.system_buffer[1] = Ext2(window.inner_size.w * Scale,
                                      window.inner_size.h * Scale)
    /\ window.inner_size = Sizes[2]
    /\ ticks >= 2
    /\ render.static_frame_index = 0
    /\ \A i \in {0, 1} : render.collectors[i].written = -1

(***************************************************************************)
(* C8  A key press event makes is_key_clicked true for the key, and it     *)
(* stays true up to the next tick unless a further event for the key       *)
(* arrives; the tick reads it, toggles fullscreen exactly when F11 is      *)
(* clicked, and clears it with the key still pressed; afterwards only a    *)
(* further key event makes it true again. So one press toggles once.       *)
(***************************************************************************)
C8_ClickedOncePerPress ==
    [][ /\ \A k \in Keys :
            /\ (Handler(trace') = "KeyboardInput" /\ input'[k] # input[k]
                    /\ input'[k].pressed) => is_key_clicked(get_state(input'), k)
            /\ TickStep => /\ ~is_key_clicked(get_state(input'), k)
                           /\ input'[k].pressed = input[k].pressed
            /\ (~is_key_clicked(get_state(input), k)
                    /\ is_key_clicked(get_state(input'), k)) =>
                   Handler(trace') = "KeyboardInput"
            /\ (is_key_clicked(get_state(input), k)
                    /\ ~is_key_clicked(get_state(input'), k)) =>
                   (TickStep \/ Handler(trace') = "KeyboardInput")
        /\ TickStep =>
             /\ (window'.fullscreen # window.fullscreen)
                    <=> is_key_clicked(get_state(input), "F11")
             /\ ("window.set_fullscreen" \in Range(trace'))
                    <=> is_key_clicked(get_state(input), "F11")
      ]_vars

\* F11 is held down, the first tick after the press toggled fullscreen and
\* the two ticks after it did not
C8_Witness ==
    /\ ticks = 3
    /\ input["F11"].pressed
    /\ ~input["F11"].changed
    /\ window.fullscreen
    /\ "window.set_fullscreen" \notin Range(trace)
    /\ render.static_frame_index = 3

(***************************************************************************)
(* C9  In every tick that updates the camera, the azimuth the look         *)
(* direction is rebuilt from lies in [0.01, pi - 0.01], so it is neither 0 *)
(* nor pi, and the direction the camera is left with is not parallel to    *)
(* the world up vector (its cross product with (0,1,0) is not zero).       *)
(***************************************************************************)
C9_AzimuthClamped ==
    [][CameraTick =>
         LET control == camera_control(camera, get_state(input), timer')
         IN  /\ control.required
             /\ camera' = control.camera
             /\ control.azimuth >= Scale \div 100
             /\ control.azimuth <= Pi - Scale \div 100
             /\ control.azimuth # 0 /\ control.azimuth # Pi
             /\ Rem(camera'.direction, WorldUp) # Vec3f(0, 0, 0)
      ]_vars

\* the camera was turned up until the clamp held it at 0.01
C9_Witness ==
    /\ "camera.set" \in Range(trace)
    /\ input["ArrowUp"].pressed /\ ~input["ArrowDown"].pressed
    /\ camera.direction.y = Cos(AzimuthMargin)
    /\ camera.direction.y > 0
    /\ Rem(camera.direction, WorldUp) # Vec3f(0, 0, 0)

\* the camera was turned down until the clamp held it at pi - 0.01
C9_WitnessDown ==
    /\ "camera.set" \in Range(trace)
    /\ input["ArrowDown"].pressed /\ ~input["ArrowUp"].pressed
    /\ camera.direction.y = Cos(Pi - AzimuthMargin)
    /\ camera.direction.y < 0

(***************************************************************************)
(* SpecSet: Camera::set alone, called once on a freshly constructed camera *)
(* with arguments drawn from a grid: the location at the origin or at the  *)
(* startup position, the target at an offset with components of very      *)
(* different magnitudes, and approx_up along, between and against the      *)
(* axes.                                                                   *)
(***************************************************************************)
SetLocations == {Vec3f(0, 0, 0), StartupCamera.location}
SetOffsets == {-3 * Scale, 0, 1, (4 * Scale) \div 5}
SetUps == {-Scale, 0, Scale}

InitSet ==
    /\ system = "None"
    /\ exiting = FALSE
    /\ window = WindowNew
    /\ render = StartupRender
    /\ timer = TimerNew
    /\ input = InputNew
    /\ camera = CameraNew
    /\ trace = <<>>
    /\ ticks = 0
    /\ \E location \in SetLocations :
       \E ox \in SetOffsets, oy \in SetOffsets, oz \in SetOffsets :
       \E ux \in SetUps, uy \in SetUps, uz \in SetUps :
           args = <<location, VAdd(location, Vec3f(ox, oy, oz)), Vec3f(ux, uy, uz)>>

CallSet ==
    /\ trace = <<>>
    /\ camera' = CameraSet(args[1], args[2], args[3])
    /\ trace' = <<"Camera::set">>
    /\ UNCHANGED <<system, exiting, window, render, timer, input, ticks, args>>

NextSet == CallSet

SpecSet == InitSet /\ [][NextSet]_vars

\* the precondition of the claim, in exact arithmetic: at # location and
\* approx_up not parallel to at - location (their cross product is not 0)
ValidArgs ==
    LET d == VSub(args[2], args[1])
        u == args[3]
    IN  /\ args[2] # args[1]
        /\ <<d.y * u.z - d.z * u.y, d.z * u.x - d.x * u.z,
             d.x * u.y - d.y * u.x>> # <<0, 0, 0>>

Abs(x) == IF x < 0 THEN -x ELSE x

\* both lengths Camera::set divides by, as computed, are well above the
\* rounding unit of the arithmetic
MinLength == Scale \div 10
WellConditioned ==
    LET d == VSub(args[2], args[1])
    IN  /\ ValidArgs
        /\ length(d) >= MinLength
        /\ length(Rem(normalized(d), args[3])) >= MinLength

\* unit length and orthogonality within the tolerance of the arithmetic
Tolerance == Scale \div 200
Unit(v) == Abs(length(v) - Scale) <= Tolerance
Orthogonal(a, b) == Abs(BitXor(a, b)) <= Tolerance
Orthonormal(cam) ==
    /\ ~IsNaN(cam.direction) /\ ~IsNaN(cam.right) /\ ~IsNaN(cam.up)
    /\ Unit(cam.direction) /\ Unit(cam.right) /\ Unit(cam.up)
    /\ Orthogonal(cam.direction, cam.right)
    /\ Orthogonal(cam.direction, cam.up)
    /\ Orthogonal(cam.right, cam.up)

\* the three vectors are the ones the claim names
SetFormulas(cam) ==
    /\ cam.location = args[1]
    /\ cam.at = args[2]
    /\ cam.direction = normalized(VSub(args[2], args[1]))
    /\ cam.right = normalized(Rem(cam.direction, args[3]))
    /\ cam.up = normalized(Rem(cam.right, cam.direction))

C10_WitnessDegenerate ==
    /\ trace = <<"Camera::set">>
    /\ ValidArgs
    /\ ~IsNaN(camera.direction)
    /\ IsNaN(camera.right) /\ IsNaN(camera.up)

(***************************************************************************)
(* SpecDefault: the frame loop of a System whose camera is as Camera::new  *)
(* leaves it (location (0,0,1), at (0,0,0)), after n rendered frames; key  *)
(* events for the forward and the turn-up key and redraw ticks follow.     *)
(* args records n.                                                         *)
(***************************************************************************)
DefaultFrames == 0..2
DefaultKeys == {"KeyW", "ArrowUp"}

InitDefault ==
    \E n \in DefaultFrames :
        /\ system = "Some"
        /\ exiting = FALSE
        /\ window = WindowNew
        /\ render = IF n = 0
                    THEN update_render_camera(RenderNew(WindowNew.inner_size),
                                              CameraNew, WindowNew)
                    ELSE RenderRender(
                           IF n = 1
                           THEN update_render_camera(RenderNew(WindowNew.inner_size),
                                                     CameraNew, WindowNew)
                           ELSE RenderRender(
                                  update_render_camera(RenderNew(WindowNew.inner_size),
                                                       CameraNew, WindowNew),
                                  TRUE, CHOOSE now \in Clocks : TRUE),
                           TRUE, CHOOSE now \in Clocks : TRUE)
        /\ timer = TimerNew
        /\ input = InputNew
        /\ camera = CameraNew
        /\ trace = <<>>
        /\ ticks = 0
        /\ args = <<n>>

NextDefault ==
    \/ \E code \in DefaultKeys, pressed \in BOOLEAN : KeyboardInput(code, pressed)
    \/ \E dt \in DeltaTimes, acquired \in BOOLEAN, now \in Clocks :
           RedrawRequested(dt, acquired, now)

SpecDefault == InitDefault /\ [][NextDefault]_vars

\* of the control keys, exactly KeyW is pressed: move axis (0,0,1), no rotation
ForwardOnly(inp) ==
    \A k \in {"KeyD", "KeyA", "KeyR", "KeyF", "KeyW", "KeyS",
              "ArrowRight", "ArrowLeft", "ArrowDown", "ArrowUp"} :
        inp[k].pressed <=> (k = "KeyW")

(***************************************************************************)
(* C11  From the default camera (location (0,0,1), at (0,0,0)), one tick   *)
(* with delta_time 0.1, move axis (0,0,1) and no rotation leaves location  *)
(* at (0,0,0.2), 0.8 units along direction, leaves direction unchanged,    *)
(* and the accumulate pass of the tick runs with frame_index 0.            *)
(***************************************************************************)
C11_ForwardStep ==
    [][(TickStep /\ camera = CameraNew /\ ForwardOnly(input)
            /\ get_delta_time(timer') = Scale \div 10) =>
         /\ camera'.location = Vec3f(0, 0, Scale \div 5)
         /\ VSub(camera'.location, camera.location) =
                VMul(camera.direction, (8 * Scale) \div 10)
         /\ camera'.direction = camera.direction
         /\ camera'.direction = Vec3f(0, 0, -Scale)
         /\ PassIssued => PassFrameIndex(render') = 0
         /\ render'.static_frame_index = IF PassIssued THEN 1 ELSE 0
      ]_vars

\* two frames had been rendered with the default camera; the forward tick
\* moved it to (0,0,0.2) and its pass ran with frame index 0
C11_Witness ==
    /\ args = <<2>>
    /\ ticks = 1
    /\ "camera.set" \in Range(trace)
    /\ "accumulate_pass" \in Range(trace)
    /\ camera.location = Vec3f(0, 0, Scale \div 5)
    /\ camera.direction = CameraNew.direction
    /\ PassFrameIndex(render) = 0
    /\ render.static_frame_index = 1

(***************************************************************************)
(* SpecLive: the event loop, with the window system delivering a redraw    *)
(* event whenever one has been requested and the loop has not been asked   *)
(* to exit: weak fairness of the requested tick, WF_vars(RequestedTick),   *)
(* stated with the enabling condition of the tick written out.             *)
(***************************************************************************)
\* a redraw has been requested and the RedrawRequested arm can run
TickEnabled ==
    window.redraw_requested /\ ~exiting /\ system = "Some" /\ ticks < MaxTicks

\* the step of a tick that had been requested
RequestedTick == window.redraw_requested /\ ticks' = ticks + 1

SpecLive ==
    /\ Init /\ [][Next]_vars
    /\ ([]<>(~TickEnabled) \/ []<><<RequestedTick>>_vars)

(***************************************************************************)
(* C12  Every processed redraw tick, one whose surface acquisition fails   *)
(* included, ends by requesting the next redraw, and each tick is one      *)
(* whole handler call; so once a tick has been processed, as long as no    *)
(* close request arrives and requested redraws are delivered, a further    *)
(* tick follows every tick (up to the MaxTicks ticks the model counts).    *)
(***************************************************************************)
C12_TicksRearm ==
    /\ [][TickStep =>
            /\ window'.redraw_requested
            /\ trace'[Len(trace')] = "window.request_redraw"
            /\ Cardinality({i \in 1..Len(trace') : trace'[i] = "RedrawRequested"}) = 1
            /\ Cardinality({i \in 1..Len(trace') : trace'[i] = "render.render"}) = 1
         ]_vars
    /\ \A n \in 1..(MaxTicks - 1) :
           (ticks = n) ~> (ticks = n + 1 \/ exiting)

\* a tick whose surface acquisition failed was followed by a further tick
C12_Witness ==
    /\ ticks = 2
    /\ ~exiting
    /\ "get_current_texture:Err" \in Range(trace)
    /\ render.static_frame_index = 0
    /\ window.redraw_requested

(***************************************************************************)
(* C13  A close request for the application's window asks the event loop   *)
(* to exit and changes no camera, input or accumulation state (nor the     *)
(* window or the timer); an event for another window does not ask for the  *)
(* exit; and once the exit has been asked for it stays asked for.          *)
(***************************************************************************)
C13_CloseExits ==
    [][ /\ Handler(trace') = "CloseRequested" =>
             /\ ~exiting /\ exiting'
             /\ trace' = <<"CloseRequested", "event_loop.exit">>
             /\ camera' = camera
             /\ input' = input
             /\ render' = render
             /\ window' = window /\ timer' = timer /\ ticks' = ticks
        /\ Handler(trace') = "on_window_event" => exiting' = exiting
        /\ exiting => exiting'
      ]_vars

\* the close request arrived with a key held, the camera moved and two
\* frames accumulated; all of it is as the last tick left it
C13_Witness ==
    /\ exiting
    /\ Handler(trace) = "CloseRequested"
    /\ input["KeyW"].pressed
    /\ camera.location # StartupCamera.location
    /\ render.static_frame_index = 1
    /\ ticks = 2

\* how often a step occurs in the trace of a handler call
Count(tr, step) == Cardinality({i \in 1..Len(tr) : tr[i] = step})
\* the steps of a tick that read the tick's input snapshot
SnapshotReads == {"is_key_clicked(F11)", "camera_control"}

(***************************************************************************)
(* C14  In every processed redraw tick clear_changed() is called exactly   *)
(* once, after the snapshot was taken and after every read of it: the F11  *)
(* click test and the is_key_pressed reads of the camera control block;    *)
(* no step after it reads the snapshot, and it clears every changed flag.  *)
(***************************************************************************)
C14_ClearAfterReads ==
    [][TickStep =>
         /\ Count(trace', "input.clear_changed") = 1
         /\ Count(trace', "input.get_state") = 1
         /\ Position(trace', "input.get_state") < Position(trace', "input.clear_changed")
         /\ \A i \in 1..Len(trace') :
                trace'[i] \in SnapshotReads =>
                    /\ Position(trace', "input.get_state") < i
                    /\ i < Position(trace', "input.clear_changed")
         /\ SnapshotReads \subseteq Range(trace')
         /\ input' = clear_changed(input)
         /\ (window'.fullscreen # window.fullscreen)
                <=> is_key_clicked(get_state(input), "F11")
      ]_vars

\* a tick that read a click of F11 and a held KeyW, and then cleared the
\* changed flags
C14_Witness ==
    /\ Handler(trace) = "RedrawRequested"
    /\ "window.set_fullscreen" \in Range(trace)
    /\ "camera.set" \in Range(trace)
    /\ input["F11"].pressed /\ input["KeyW"].pressed
    /\ \A k \in Keys : ~input[k].changed

\* the steps of tr named in steps occur in tr, once each, in that order
InOrder(tr, steps) ==
    /\ \A j \in 1..Len(steps) : Count(tr, steps[j]) = 1
    /\ \A j \in 1..(Len(steps) - 1) :
           Position(tr, steps[j]) < Position(tr, steps[j + 1])

(***************************************************************************)
(* C15 as stated: in a tick that issues its passes the steps occur in the  *)
(* order: camera invalidation and payload upload (if the camera changed),  *)
(* accumulate pass, present pass, clear_changed(), frame counter           *)
(* increment, request for the next redraw.                                 *)
(***************************************************************************)
C15_Original ==
    (Handler(trace) = "RedrawRequested" /\ "accumulate_pass" \in Range(trace)) =>
        /\ InOrder(trace, <<"accumulate_pass", "present_pass",
                            "input.clear_changed", "static_frame_index+=1",
                            "window.request_redraw">>)
        /\ "camera.set" \in Range(trace) =>
               InOrder(trace, <<"update_render_camera", "accumulate_pass">>)

(***************************************************************************)
(* C15 amended: within one redraw tick clear_changed() comes first, then   *)
(* the camera invalidation and payload upload (if the camera changed),     *)
(* then the accumulate pass and the present pass, then the frame counter   *)
(* increment, then the request for the next redraw; the pass runs with the *)
(* counter the invalidation left and the increment follows it.             *)
(***************************************************************************)
C15_Amended ==
    [][TickStep =>
         /\ InOrder(trace', <<"input.clear_changed", "render.render",
                              "window.request_redraw">>)
         /\ trace'[Len(trace')] = "window.request_redraw"
         /\ "camera.set" \in Range(trace') =>
                InOrder(trace', <<"camera.set", "input.clear_changed",
                                  "update_render_camera", "render.render">>)
         /\ "camera.set" \notin Range(trace') =>
                "update_render_camera" \notin Range(trace')
         /\ PassIssued =>
                /\ InOrder(trace', <<"input.clear_changed", "render.render",
                                     "accumulate_pass", "present_pass", "submit",
                                     "static_frame_index+=1",
                                     "window.request_redraw">>)
                /\ PassFrameIndex(render') =
                       IF "camera.set" \in Range(trace') THEN 0
                       ELSE render.static_frame_index
                /\ render'.static_frame_index = PassFrameIndex(render') + 1
      ]_vars

\* a tick that changed the camera after two rendered frames and issued its
\* passes: clear_changed came before the upload and the passes
C15_Witness ==
    /\ Handler(trace) = "RedrawRequested"
    /\ ticks = 3
    /\ "camera.set" \in Range(trace)
    /\ "accumulate_pass" \in Range(trace)
    /\ Position(trace, "input.clear_changed") < Position(trace, "update_render_camera")
    /\ Position(trace, "input.clear_changed") < Position(trace, "accumulate_pass")
    /\ PassFrameIndex(render) = 0

\* the extent of the surface as an Ext2
SurfaceExtent(r) == Ext2(r.surface_configuration.width, r.surface_configuration.height)
\* the two collectors, apart from the mark of the frame that last wrote them
Allocation(r) == [i \in {0, 1} |-> [extent |-> r.collectors[i].extent,
                                    layer  |-> r.collectors[i].layer]]

(***************************************************************************)
(* C16  A resize is never processed while a tick is in progress: a tick is *)
(* one handler call and a Resized event another, so over every             *)
(* interleaving of the two a tick leaves the surface extent and the        *)
(* collector pair as it found them, the frame index its passes run with is *)
(* the one the tick found, or 0 after the tick's own camera invalidation,  *)
(* and both passes use collectors created for one extent, the surface's.   *)
(***************************************************************************)
C16_NoResizeInTick ==
    [][TickStep =>
         /\ "render.resize" \notin Range(trace')
         /\ SurfaceExtent(render') = SurfaceExtent(render)
         /\ Allocation(render') = Allocation(render)
         /\ PassIssued =>
              /\ PassFrameIndex(render') =
                     IF "camera.set" \in Range(trace') THEN 0
                     ELSE render.static_frame_index
              /\ \A i \in {0, 1} :
                     /\ render'.collectors[i].extent = SurfaceExtent(render)
                     /\ render'.collectors[i].written \in
                            {render.collectors[i].written, PassFrameIndex(render')}
              /\ render'.collectors[render'.submitted[1].view].extent =
                     render'.collectors[render'.submitted[1].bind_group].extent
              /\ render'.system_buffer[1] =
                     Ext2(SurfaceExtent(render).w * Scale, SurfaceExtent(render).h * Scale)
         /\ ~PassIssued => render'.collectors = render.collectors
      ]_vars

\* after a resize to 600x800 and two ticks, a tick that moved the camera
\* and issued its passes with frame index 0 on the two collectors of that
\* extent, keeping what the tick before it wrote into the other collector
C16_Witness ==
    /\ Handler(trace) = "RedrawRequested"
    /\ "camera.set" \in Range(trace)
    /\ "accumulate_pass" \in Range(trace)
    /\ SurfaceExtent(render) = Sizes[2]
    /\ \A i \in {0, 1} : render.collectors[i].extent = Sizes[2]
    /\ render.collectors[0].written = 1
    /\ render.collectors[1].written = 0
    /\ PassFrameIndex(render) = 0
    /\ ticks = 3

(***************************************************************************)
(* C17  set_camera resets frame_index to 0 and leaves the collector pair   *)
(* and the surface extent as they are; after construction only the         *)
(* handling of a Resized event replaces collectors, and it replaces both   *)
(* together with the surface extent; so the two collectors and the         *)
(* surface always have the same extent.                                    *)
(***************************************************************************)
C17_InvalidateKeepsBuffers ==
    /\ [](/\ \A i \in {0, 1} : render.collectors[i].extent = SurfaceExtent(render)
          /\ LET invalidated ==
                     RenderSetCamera(render, CameraDescriptor(camera, window.inner_size))
             IN  /\ invalidated.static_frame_index = 0
                 /\ invalidated.collectors = render.collectors
                 /\ invalidated.surface_configuration = render.surface_configuration)
    /\ [][ /\ (\/ Allocation(render') # Allocation(render)
               \/ SurfaceExtent(render') # SurfaceExtent(render)
               \/ \E i \in {0, 1} : /\ render'.collectors[i].written = -1
                                    /\ render.collectors[i].written # -1)
              => Handler(trace') \in {"Resized", "resumed"}
           /\ ResizedStep =>
                /\ \A i \in {0, 1} :
                       render'.collectors[i] =
                           [extent |-> window'.inner_size, layer |-> i, written |-> -1]
                /\ SurfaceExtent(render') = window'.inner_size
           /\ CameraTick =>
                /\ Allocation(render') = Allocation(render)
                /\ SurfaceExtent(render') = SurfaceExtent(render)
                /\ FailedTick => (render'.collectors = render.collectors
                                    /\ render'.static_frame_index = 0)
         ]_vars

\* two frames were accumulated, then a tick moved the camera and failed to
\* acquire the surface image: the counter is 0 and both collectors still
\* hold what the two frames wrote
C17_Witness ==
    /\ "camera.set" \in Range(trace)
    /\ "get_current_texture:Err" \in Range(trace)
    /\ render.static_frame_index = 0
    /\ render.collectors[1].written = 0
    /\ render.collectors[0].written = 1
    /\ SurfaceExtent(render) = Sizes[2]

(***************************************************************************)
(* C18  In every tick that issues GPU work, the static_frame_index written *)
(* into the system record is the counter value the same call of render()   *)
(* selects the read and the write collector with: the value before the     *)
(* increment that follows the passes.                                      *)
(***************************************************************************)
C18_UniformMatchesSelection ==
    [][(TickStep /\ PassIssued) =>
         LET uploaded == render'.system_buffer[3]
             before == IF "camera.set" \in Range(trace') THEN 0
                       ELSE render.static_frame_index
         IN  /\ uploaded = before
             /\ render'.static_frame_index = uploaded + 1
             /\ render'.submitted[1].bind_group = ReadIndex(uploaded)
             /\ render'.submitted[1].view = TargetIndex(uploaded)
             /\ render'.submitted[2].bind_group = TargetIndex(uploaded)
             /\ render'.collectors[TargetIndex(uploaded)].written = uploaded
      ]_vars

\* the third frame in a row: the record holds 2, the pass read collector 0
\* and wrote collector 1, and the counter is 3
C18_Witness ==
    /\ "accumulate_pass" \in Range(trace)
    /\ render.system_buffer[3] = 2
    /\ render.submitted[1].bind_group = 0
    /\ render.submitted[1].view = 1
    /\ render.static_frame_index = 3

\* two vectors agree within tol in every component
Near(a, b, tol) ==
    /\ Abs(a.x - b.x) <= tol /\ Abs(a.y - b.y) <= tol /\ Abs(a.z - b.z) <= tol
\* no rotation key is pressed, or every pressed one is cancelled
NoRotation(inp) ==
    /\ inp["ArrowRight"].pressed = inp["ArrowLeft"].pressed
    /\ inp["ArrowDown"].pressed = inp["ArrowUp"].pressed

(***************************************************************************)
(* C19 as stated: in a camera-update tick with movement-only input,        *)
(* new_location - old_location = new_at - old_at (read here within the     *)
(* tolerance of the arithmetic), from every reachable camera state, the    *)
(* startup pose included.                                                  *)
(***************************************************************************)
C19_Original ==
    [][(CameraTick /\ NoRotation(input)) =>
           Near(VSub(camera'.location, camera.location),
                VSub(camera'.at, camera.at), Tolerance)]_vars

(***************************************************************************)
(* C19 amended: in a camera-update tick with movement-only input the       *)
(* location is translated by the movement delta and at is placed at the    *)
(* new location plus the rebuilt direction, which is the old direction     *)
(* within rounding. So location and at move by the same delta (within      *)
(* rounding) when at - location was the unit direction before the tick,    *)
(* as it is after any camera update; from the startup pose, where          *)
(* at - location has length 0.98, at moves by a different delta.           *)
(***************************************************************************)
C19_Amended ==
    [][(CameraTick /\ NoRotation(input)) =>
         LET control == camera_control(camera, get_state(input), timer')
         IN  /\ VSub(camera'.location, camera.location) = control.movement_delta
             /\ VSub(camera'.at, camera'.location) = control.new_direction
             /\ Near(control.new_direction, camera.direction, Tolerance)
             /\ Near(VSub(camera.at, camera.location), camera.direction, Tolerance) =>
                    Near(VSub(camera'.location, camera.location),
                         VSub(camera'.at, camera.at), 2 * Tolerance)
             /\ camera = StartupCamera =>
                    ~Near(VSub(camera'.location, camera.location),
                          VSub(camera'.at, camera.at), 2 * Tolerance)
      ]_vars

\* the second forward step: location and at have both moved on by the
\* same delta
C19_Witness ==
    /\ "camera.set" \in Range(trace)
    /\ ticks = 2
    /\ input["KeyW"].pressed
    /\ Near(VSub(camera.at, camera.location), camera.direction, Tolerance)
    /\ Near(VSub(camera.location, StartupCamera.location),
            VMul(StartupCamera.direction, 2 * ((8 * Scale) \div 10)), 2 * Tolerance)

\* the first forward step from the startup pose: at has moved by the delta
\* of the location and by the 0.02 its distance from the location grew
C19_WitnessStartup ==
    /\ "camera.set" \in Range(trace)
    /\ Near(VSub(camera.location, StartupCamera.location),
            VMul(StartupCamera.direction, (8 * Scale) \div 10), Tolerance)
    /\ ~Near(VSub(camera.at, StartupCamera.at),
             VSub(camera.location, StartupCamera.location), 2 * Tolerance)

\* the f32 values of the two packed records, in memory order
Floats3(v) == <<v.x, v.y, v.z>>
CameraFloats(buf) ==
    Floats3(buf[1]) \o <<buf[2]>> \o Floats3(buf[3]) \o <<buf[4]>>
    \o Floats3(buf[5]) \o <<buf[6]>> \o Floats3(buf[7]) \o <<buf[8]>>
SystemFloats(buf) == <<buf[1].w, buf[1].h, buf[2], buf[3], buf[4].w, buf[4].h>>
\* the system record is one render() wrote at some window extent and clock
SystemRecordWritten(buf) ==
    \E size \in SizeSet, now \in Clocks, index \in 0..(MaxTicks + MaxFrameIndex) :
        SystemFloats(buf) =
            <<size.w * Scale, size.h * Scale, SystemTime(now), index,
              FDiv(Scale, size.w * Scale), FDiv(Scale, size.h * Scale)>>

(***************************************************************************)
(* C20 as stated: the camera record holds, in this order, location (3),    *)
(* direction (3), right (3), up (3), near, projection_extent (2), and the  *)
(* system record resolution (2), time, static_frame_index, texel_size (2). *)
(***************************************************************************)
C20_Original ==
    LET d == CameraDescriptor(camera, window.inner_size)
    IN  /\ CameraFloats(render.camera_buffer) =
               Floats3(d.location) \o Floats3(d.dir) \o Floats3(d.right)
               \o Floats3(d.up) \o <<d.near, d.projection_extent.w,
                                     d.projection_extent.h>>
        /\ render.system_buffer # <<>> => SystemRecordWritten(render.system_buffer)

(***************************************************************************)
(* C20 amended: the camera record holds sixteen floats in the order        *)
(* location (3), a padding float, direction (3), near, right (3),          *)
(* projection width, up (3), projection height; the system record holds    *)
(* resolution (2), time, static_frame_index, texel_size (2).               *)
(***************************************************************************)
C20_Amended ==
    LET d == CameraDescriptor(camera, window.inner_size)
    IN  /\ CameraFloats(render.camera_buffer) =
               Floats3(d.location) \o <<0>> \o Floats3(d.dir) \o <<d.near>>
               \o Floats3(d.right) \o <<d.projection_extent.w>>
               \o Floats3(d.up) \o <<d.projection_extent.h>>
        /\ Len(CameraFloats(render.camera_buffer)) = 16
        /\ render.system_buffer # <<>> =>
               /\ SystemRecordWritten(render.system_buffer)
               /\ "accumulate_pass" \in Range(trace) =>
                      SystemFloats(render.system_buffer) =
                          <<window.inner_size.w * Scale, window.inner_size.h * Scale,
                            render.system_buffer[2], render.static_frame_index - 1,
                            FDiv(Scale, window.inner_size.w * Scale),
                            FDiv(Scale, window.inner_size.h * Scale)>>

\* in a 600x800 window a tick moved the camera, uploaded the camera record
\* (projection 1 by 1.333, near 1) and wrote the system record
C20_Witness ==
    /\ "update_render_camera" \in Range(trace)
    /\ "write_system_buffer" \in Range(trace)
    /\ window.inner_size = Sizes[2]
    /\ camera.location # StartupCamera.location
    /\ CameraFloats(render.camera_buffer)[8] = Scale
    /\ CameraFloats(render.camera_buffer)[12] = Scale
    /\ CameraFloats(render.camera_buffer)[16] = FDiv(800 * Scale, 600 * Scale)
    /\ SystemFloats(render.system_buffer)[1] = 600 * Scale
    /\ SystemFloats(render.system_buffer)[4] = 0

(***************************************************************************)
(* SpecSizes: the event loop with Resized events over window sizes from    *)
(* one pixel to 1920 in either dimension, the forward key and redraw       *)
(* ticks.                                                                  *)
(***************************************************************************)
WindowDims == {1, 600, 1920}
WindowSizes == {Ext2(w, h) : w \in WindowDims, h \in WindowDims}

NextSizes ==
    \/ Resumed
    \/ \E pressed \in BOOLEAN : KeyboardInput("KeyW", pressed)
    \/ \E new_extent \in WindowSizes : Resized(new_extent)
    \/ \E dt \in DeltaTimes, acquired \in BOOLEAN, now \in Clocks :
           RedrawRequested(dt, acquired, now)

SpecSizes == Init /\ [][NextSizes]_vars

\* the projection_extent held by the camera buffer
UploadedProjection(r) ==
    Ext2(CameraFloats(r.camera_buffer)[12], CameraFloats(r.camera_buffer)[16])

(***************************************************************************)
(* C21  For every window size with width >= 1 and height >= 1 the uploaded *)
(* projection_extent is (width / min, height / min) with min the smaller   *)
(* of width and height: its smaller component is exactly 1 and the other   *)
(* is >= 1; every Resized event and every camera-changing tick computes    *)
(* and uploads it again.                                                   *)
(***************************************************************************)
C21_ProjectionExtent ==
    /\ [](LET size == window.inner_size
              least == IF size.w <= size.h THEN size.w ELSE size.h
              projection == UploadedProjection(render)
          IN  /\ size.w >= 1 /\ size.h >= 1
              /\ projection = Ext2(RoundDiv(size.w * Scale, least),
                                   RoundDiv(size.h * Scale, least))
              /\ projection.w >= Scale /\ projection.h >= Scale
              /\ projection.w = Scale \/ projection.h = Scale
              /\ size.w <= size.h => projection.w = Scale
              /\ size.h <= size.w => projection.h = Scale)
    /\ [][ /\ ResizedStep => "update_render_camera" \in Range(trace')
           /\ CameraTick => "update_render_camera" \in Range(trace')
           /\ "update_render_camera" \in Range(trace') =>
                  render'.camera_buffer =
                      CameraData(CameraDescriptor(camera', window'.inner_size))
         ]_vars

\* the window was resized to 1920x1 and a tick then moved the camera: the
\* projection uploaded is 1920 by 1
C21_Witness ==
    /\ "camera.set" \in Range(trace)
    /\ window.inner_size = Ext2(1920, 1)
    /\ UploadedProjection(render) = Ext2(1920 * Scale, Scale)
    /\ CameraFloats(render.camera_buffer)[1] = camera.location.x
    /\ camera.location # StartupCamera.location

(***************************************************************************)
(* SpecClock: redraw ticks that read the system clock at values before the *)
(* epoch, at the epoch, and on either side of multiples of 2^24            *)
(* milliseconds.                                                           *)
(***************************************************************************)
ClockValues ==
    {-5, 0, 999, TimeMask, TimeMask + 1, TimeMask + 2501, 2 * TimeMask + 1}

NextClock ==
    \/ Resumed
    \/ \E code \in EventKeys, pressed \in BOOLEAN : KeyboardInput(code, pressed)
    \/ \E dt \in DeltaTimes, acquired \in BOOLEAN, now \in ClockValues :
           RedrawRequested(dt, acquired, now)

SpecClock == Init /\ [][NextClock]_vars

\* milliseconds since the epoch modulo 2^24, by repeated subtraction of 2^24
RECURSIVE MillisMod(_)
MillisMod(ms) == IF ms <= TimeMask THEN ms ELSE MillisMod(ms - TimeMask - 1)

\* the time field of the system record, in thousandths of a second
TimeField(buf) == SystemFloats(buf)[3]

(***************************************************************************)
(* C22  For every system clock value the time field of the system record   *)
(* is (milliseconds since the epoch mod 2^24) / 1000, so it lies within    *)
(* [0, 16777.215] seconds, and it is 0 when the clock is before the epoch. *)
(***************************************************************************)
C22_TimeField ==
    /\ [](/\ render.system_buffer # <<>> =>
                 TimeField(render.system_buffer) \in 0..16777215
          /\ \A now \in ClockValues :
                 LET time == TimeField(SystemData(render, now))
                 IN  /\ now < 0 => time = 0
                     /\ now >= 0 => time = MillisMod(now)
                     /\ time >= 0 /\ time <= 16777215)
    /\ [][TickStep /\ PassIssued =>
              \E now \in ClockValues :
                  TimeField(render'.system_buffer) =
                      IF now < 0 THEN 0 ELSE MillisMod(now)]_vars

\* a pass ran with the clock one millisecond short of a multiple of 2^24:
\* the time field holds its largest value
C22_Witness ==
    /\ "submit" \in Range(trace)
    /\ ticks = 2
    /\ TimeField(render.system_buffer) = TimeMask

\* a later pass ran with the clock at or before the epoch
C22_WitnessEpoch ==
    /\ "submit" \in Range(trace)
    /\ render.static_frame_index = 3
    /\ TimeField(render.system_buffer) = 0

\* the latest call recorded in a history of render calls
Last(calls) == calls[Len(calls)]

(***************************************************************************)
(* C23  In every reachable state frame_index equals the number of render() *)
(* calls that acquired a surface image and submitted their passes since    *)
(* the most recent resize or set_camera call, or since creation if there   *)
(* was none.                                                               *)
(***************************************************************************)
C23_CounterCountsPasses ==
    /\ [](/\ render.calls[1] \in {"new", "resize", "set_camera"}
          /\ \A i \in 2..Len(render.calls) : render.calls[i] = "render"
          /\ render.static_frame_index = Count(render.calls, "render"))
    /\ [][ /\ ResizedStep => render'.calls = <<"set_camera">>
           /\ CameraTick /\ PassIssued =>
                  render'.calls = <<"set_camera", "render">>
           /\ CameraTick /\ FailedTick => render'.calls = <<"set_camera">>
           /\ TickStep /\ ~CameraTick /\ PassIssued =>
                  render'.calls = Append(render.calls, "render")
           /\ TickStep /\ ~CameraTick /\ FailedTick =>
                  render'.calls = render.calls
         ]_vars

\* one pass at the first size, a resize, then two passes and no camera
\* change: the counter is 2 after three ticks
C23_Witness ==
    /\ ticks = 3
    /\ SurfaceExtent(render) = Sizes[2]
    /\ render.calls = <<"set_camera", "render", "render">>
    /\ render.static_frame_index = 2
    /\ render.collectors[0].written = 1

(***************************************************************************)
(* C24  Whenever an accumulate pass runs with frame_index >= 1, its read   *)
(* collector is the collector the immediately preceding submitted          *)
(* accumulate pass wrote, and no resize and no camera upload happened      *)
(* between the two passes: history is never read across a camera or        *)
(* resolution change.                                                      *)
(***************************************************************************)
C24_ReadsPrecedingPass ==
    [][TickStep /\ PassIssued /\ PassFrameIndex(render') >= 1 =>
           LET read_collector == render'.submitted[1].bind_group
           IN  /\ Last(render.calls) = "render"
               /\ "update_render_camera" \notin Range(trace')
               /\ "render.resize" \notin Range(trace')
               /\ PassFrameIndex(render) = PassFrameIndex(render') - 1
               /\ render.submitted[1].view = read_collector
               /\ render.collectors[read_collector].written =
                      PassFrameIndex(render') - 1
               /\ render'.collectors[read_collector] =
                      render.collectors[read_collector]
               /\ render'.camera_buffer = render.camera_buffer
               /\ SurfaceExtent(render') = SurfaceExtent(render)
      ]_vars

\* the third pass in a row read collector 0, which the second pass wrote
C24_Witness ==
    /\ ticks = 3
    /\ "accumulate_pass" \in Range(trace)
    /\ PassFrameIndex(render) = 2
    /\ render.submitted[1].bind_group = 0
    /\ render.collectors[0].written = 1
    /\ render.collectors[1].written = 2

(***************************************************************************)
(* SpecWide: the frame loop from the states the program is in after        *)
(* 2^32 - 3 .. 2^32 - 1 passes without a resize or a camera change, in a   *)
(* build with overflow checks (RedrawPanicked) and in one without          *)
(* (RedrawRequested).  The history of calls keeps the latest two renders   *)
(* of that run only.                                                       *)
(***************************************************************************)
WideStarts == {U32Max - 2, U32Max - 1, U32Max}

RenderWide(n) ==
    LET now    == CHOOSE clock \in Clocks : TRUE
        before == [StartupRender EXCEPT !.static_frame_index = n - 2]
    IN  RenderRender(RenderRender(before, TRUE, now), TRUE, now)

InitWide ==
    \E n \in WideStarts :
        /\ system = "Some"
        /\ exiting = FALSE
        /\ window = [WindowNew EXCEPT !.redraw_requested = TRUE]
        /\ render = RenderWide(n)
        /\ timer = response(TimerNew, 100)
        /\ input = InputNew
        /\ camera = StartupCamera
        /\ trace = RedrawTrace(FALSE, FALSE, TRUE)
        /\ ticks = 0
        /\ args = <<>>

NextWide ==
    \/ \E code \in EventKeys, pressed \in BOOLEAN : KeyboardInput(code, pressed)
    \/ \E dt \in DeltaTimes, acquired \in BOOLEAN, now \in Clocks :
           RedrawRequested(dt, acquired, now)
    \/ \E dt \in DeltaTimes, now \in Clocks : RedrawPanicked(dt, now)

SpecWide == InitWide /\ [][NextWide]_vars

(***************************************************************************)
(* C25  For every 32-bit value of frame_index, 2^32 - 1 included, neither  *)
(* the write-index computation (frame_index + 1) & 1 nor the increment     *)
(* frame_index += 1 after the pass overflows: a tick that acquires its     *)
(* surface image and has no camera change does not panic and leaves the    *)
(* counter strictly greater than it found it.                              *)
(***************************************************************************)
C25_NoOverflow ==
    [][TickStep /\ ~CameraTick /\ "get_current_texture:Ok" \in Range(trace') =>
           /\ "panic" \notin Range(trace')
           /\ system' = "Some"
           /\ U32Less(render.static_frame_index, render'.static_frame_index)
      ]_vars

\* the same below the u32 maximum, where it holds
C25_BelowMaximum ==
    [][ /\ TickStep /\ ~CameraTick
        /\ "get_current_texture:Ok" \in Range(trace')
        /\ render.static_frame_index # U32Max
        => /\ "panic" \notin Range(trace')
           /\ system' = "Some"
           /\ U32Less(render.static_frame_index, render'.static_frame_index)
      ]_vars

\* the counter was at 2^32 - 1 and the tick wrapped it to 0 ...
C25_WitnessWrapped ==
    /\ system = "Some"
    /\ "submit" \in Range(trace)
    /\ PassFrameIndex(render) = U32Max
    /\ render.static_frame_index = 0

\* ... or ended the process
C25_WitnessPanicked ==
    /\ system = "Panicked"
    /\ "panic" \in Range(trace)
    /\ render.static_frame_index = U32Max

(***************************************************************************)
(* C26  A window event whose window id is not the application's window's,  *)
(* and any window event delivered before the System has been created,      *)
(* changes no state: camera, input, timer, frame_index and collectors are  *)
(* as before and no redraw is requested.                                   *)
(***************************************************************************)
C26_IgnoredEvents ==
    [][ /\ Handler(trace') \in {"window_event", "on_window_event"} =>
               /\ trace' = <<Handler(trace'), "return">>
               /\ UNCHANGED <<system, exiting, window, render, timer, input,
                              camera, ticks>>
        /\ Handler(trace') = "window_event" => system = "None"
        /\ system = "None" /\ Handler(trace') # "resumed" =>
               /\ Handler(trace') = "window_event"
               /\ UNCHANGED <<system, window, render, timer, input, camera>>
      ]_vars

\* an event for another window arrived after two passes, with a key held
\* and its change flag still set: all of that is kept
C26_Witness ==
    /\ Handler(trace) = "on_window_event"
    /\ system = "Some"
    /\ render.static_frame_index = 2
    /\ render.collectors[0].written = 1
    /\ input # InputNew
    /\ input # clear_changed(input)
    /\ timer # TimerNew

\* an event arrived before the System was created
C26_WitnessEarly ==
    /\ Handler(trace) = "window_event"
    /\ system = "None"
    /\ ~exiting
    /\ ~window.redraw_requested
    /\ render.static_frame_index = 0

====
